---- MODULE Spec2Model ----
(***************************************************************************)
(* Model of the yt-dlts pipeline (src/src/main.rs): download_audio,        *)
(* convert_audio, transcribe_audio and main.  Every `.await` of the source *)
(* is a pair of actions (the operation is started, the operation           *)
(* completes); synchronous statements are single actions.  The outcomes of *)
(* the external tools, the file system, the network and the clipboard are  *)
(* nondeterministic.                                                       *)
(***************************************************************************)
EXTENDS Integers, Sequences, FiniteSets, TLC

VARIABLES
    pc,           \* position of main
    output,       \* args.output : Option<String>
    keySet,       \* GROQ_API_KEY is present in the environment
    fileReadable, \* the file system lets converted_audio.webm be read
    netUp,        \* the POST reaches the endpoint and a response arrives
    body,         \* the response body the endpoint returns
    audioExists,  \* temp_audio.webm exists
    convExists,   \* converted_audio.webm exists
    inFlight,     \* external operations awaited and not yet completed
    calls,        \* how many times each external operation was started
    captured,     \* per tool, Option: the exit status and stderr it returned
    transcript,   \* Option: the String returned by transcribe_audio
    stdout,       \* lines printed by println!
    outFile,      \* Option: contents of the --output file
    clipboard,    \* Option: contents of the system clipboard
    failure,      \* Option: the error (or panic) that ended the run
    exitCode,     \* Option: process exit status
    done          \* stages completed with success, in completion order

vars == <<pc, output, keySet, fileReadable, netUp, body, audioExists,
          convExists, inFlight, calls, captured, transcript, stdout,
          outFile, clipboard, failure, exitCode, done>>

----------------------------------------------------------------------------
(* Bounds and value sets *)

MaxLen == 2

Chars == {" ", "a"}

Strings == UNION {[1..n -> Chars] : n \in 0..MaxLen}

None == <<>>

Some(x) == <<x>>

\* Exit statuses a subprocess can report.
ExitCodes == {0, 1, 2}

\* Captured stderr: bytes, "x" a valid byte, "BAD" an invalid UTF-8 byte.
StderrSet == {<<>>, <<"x">>, <<"BAD">>}

OutputArgs == {None, Some("out.txt")}

Tools == {"yt-dlp", "ffmpeg"}

Ops == {"yt-dlp", "ffmpeg", "env_var", "read", "http", "create", "write",
        "clip_new", "clip_set", "rm_audio", "rm_converted"}

----------------------------------------------------------------------------
(* serde_json::Value, as far as main.rs looks at it *)

JNull == <<"null">>

JNum == <<"num">>

JStr(s) == <<"str", s>>

JObj(pairs) == <<"obj", pairs>>

\* Values a field of the response object can hold.
FieldValues == {JNull, JNum} \cup {JStr(s) : s \in Strings}

\* Response bodies: not JSON at all, a JSON value that is not an object,
\* or an object with or without a "text" field.
NotJson == <<"notjson">>

Bodies ==
    {NotJson, JNull, JNum, JStr(<<"a">>), JObj(<<>>),
     JObj(<< <<"error", JStr(<<"a">>)>> >>)}
    \cup {JObj(<< <<"text", v>> >>) : v \in FieldValues}
    \cup {JObj(<< <<"error", JStr(<<"a">>)>>, <<"text", v>> >>) : v \in FieldValues}

\* json["text"]: Value's Index yields Null for a non-object or a missing key.
Index(json, key) ==
    IF json[1] = "obj" /\ \E i \in 1..Len(json[2]) : json[2][i][1] = key
    THEN LET i == CHOOSE j \in 1..Len(json[2]) : json[2][j][1] = key
         IN json[2][i][2]
    ELSE JNull

AsStrTrimmed(v) ==
    IF v[1] = "str"
    THEN Some(SelectSeq(v[2], LAMBDA c : c # " "))
    ELSE None

\* Value::as_str: Some(the string) for a string, None otherwise.
AsStr(v) == IF v[1] = "str" THEN Some(v[2]) ELSE None

\* String::from_utf8_lossy: invalid bytes become U+FFFD.
Lossy(bytes) ==
    [i \in 1..Len(bytes) |-> IF bytes[i] = "BAD" THEN "FFFD" ELSE bytes[i]]

SuccessAlways(status) == TRUE

\* ExitStatus::success
Success(status) == status = 0

----------------------------------------------------------------------------
(* Ends of the run *)

\* `?` on an Err in main: the error is returned from main, exit status 1.
Bail(ctx, detail) ==
    /\ failure' = Some([how |-> "Err", ctx |-> ctx, detail |-> detail])
    /\ exitCode' = Some(1)
    /\ pc' = "exit"

\* unwrap() on an Err: the thread panics, exit status 101.
Panic(ctx) ==
    /\ failure' = Some([how |-> "panic", ctx |-> ctx, detail |-> <<>>])
    /\ exitCode' = Some(101)
    /\ pc' = "exit"

Begin(op) ==
    /\ inFlight' = inFlight \cup {op}
    /\ calls' = [calls EXCEPT ![op] = @ + 1]

Init ==
    /\ pc = "download"
    /\ output \in OutputArgs
    /\ keySet \in BOOLEAN
    /\ fileReadable \in BOOLEAN
    /\ netUp \in BOOLEAN
    /\ body \in Bodies
    /\ audioExists \in BOOLEAN
    /\ convExists \in BOOLEAN
    /\ inFlight = {}
    /\ calls = [o \in Ops |-> 0]
    /\ captured = [t \in Tools |-> None]
    /\ transcript = None
    /\ stdout = <<>>
    /\ outFile = None
    /\ clipboard = None
    /\ failure = None
    /\ exitCode = None
    /\ done = <<>>

----------------------------------------------------------------------------
(* download_audio *)

DownloadSpawnNoAwait ==
    /\ pc = "download"
    /\ Begin("yt-dlp")
    /\ audioExists' = TRUE
    /\ pc' = "convert"
    /\ UNCHANGED <<output, keySet, fileReadable, netUp, body, convExists,
                   captured, transcript, stdout, outFile, clipboard,
                   failure, exitCode, done>>

\* Command::new("yt-dlp").args(..).output() is started and awaited.
DownloadSpawn ==
    /\ pc = "download"
    /\ Begin("yt-dlp")
    /\ pc' = "download_wait"
    /\ UNCHANGED <<output, keySet, fileReadable, netUp, body, audioExists,
                   convExists, captured, transcript, stdout, outFile,
                   clipboard, failure, exitCode, done>>

DownloadExit ==
    /\ pc = "download_wait"
    /\ inFlight' = inFlight \ {"yt-dlp"}
    /\ \/ /\ Bail("Failed to execute yt-dlp", <<>>)
          /\ UNCHANGED <<audioExists, captured, done>>
       \/ \E status \in ExitCodes, err \in StderrSet :
            /\ captured' = [captured EXCEPT !["yt-dlp"] =
                               Some([status |-> status, stderr |-> err])]
            /\ IF Success(status)
               THEN /\ audioExists' = TRUE
                    /\ pc' = "convert"
                    /\ done' = Append(done, "fetch")
                    /\ UNCHANGED <<failure, exitCode>>
               ELSE /\ Bail("yt-dlp failed", Lossy(err))
                    /\ audioExists' \in {audioExists, TRUE}
                    /\ UNCHANGED done
    /\ UNCHANGED <<output, keySet, fileReadable, netUp, body, convExists,
                   calls, transcript, stdout, outFile, clipboard>>

(* convert_audio *)

ConvertSpawn ==
    /\ pc = "convert"
    /\ Begin("ffmpeg")
    /\ pc' = "convert_wait"
    /\ UNCHANGED <<output, keySet, fileReadable, netUp, body, audioExists,
                   convExists, captured, transcript, stdout, outFile,
                   clipboard, failure, exitCode, done>>

ConvertExitDeletesInput ==
    /\ pc = "convert_wait"
    /\ inFlight' = inFlight \ {"ffmpeg"}
    /\ \E status \in ExitCodes, err \in StderrSet :
            /\ captured' = [captured EXCEPT !["ffmpeg"] =
                               Some([status |-> status, stderr |-> err])]
            /\ IF Success(status)
               THEN /\ convExists' = TRUE
                    /\ pc' = "transcribe"
                    /\ done' = Append(done, "convert")
                    /\ UNCHANGED <<failure, exitCode, audioExists>>
               ELSE /\ Bail("ffmpeg failed", Lossy(err))
                    /\ audioExists' = FALSE
                    /\ UNCHANGED <<done, convExists>>
    /\ UNCHANGED <<output, keySet, fileReadable, netUp, body, calls,
                   transcript, stdout, outFile, clipboard>>

\* .output().await.context(..)?; if !output.status.success() { bail!(..) }
ConvertExit ==
    /\ pc = "convert_wait"
    /\ inFlight' = inFlight \ {"ffmpeg"}
    /\ \/ /\ Bail("Failed to execute ffmpeg", <<>>)
          /\ UNCHANGED <<convExists, captured, done>>
       \/ \E status \in ExitCodes, err \in StderrSet :
            /\ captured' = [captured EXCEPT !["ffmpeg"] =
                               Some([status |-> status, stderr |-> err])]
            /\ IF Success(status)
               THEN /\ convExists' = TRUE
                    /\ pc' = "transcribe"
                    /\ done' = Append(done, "convert")
                    /\ UNCHANGED <<failure, exitCode>>
               ELSE /\ Bail("ffmpeg failed", Lossy(err))
                    /\ convExists' \in {convExists, TRUE}
                    /\ UNCHANGED done
    /\ UNCHANGED <<output, keySet, fileReadable, netUp, body, audioExists,
                   calls, transcript, stdout, outFile, clipboard>>

(* transcribe_audio *)

EnvVarIgnored ==
    /\ pc = "transcribe"
    /\ calls' = [calls EXCEPT !["env_var"] = @ + 1]
    /\ pc' = "read"
    /\ UNCHANGED <<failure, exitCode>>
    /\ UNCHANGED <<output, keySet, fileReadable, netUp, body, audioExists,
                   convExists, inFlight, captured, transcript, stdout,
                   outFile, clipboard, done>>

\* std::env::var("GROQ_API_KEY").context(..)?
EnvVar ==
    /\ pc = "transcribe"
    /\ calls' = [calls EXCEPT !["env_var"] = @ + 1]
    /\ IF keySet
       THEN /\ pc' = "read"
            /\ UNCHANGED <<failure, exitCode>>
       ELSE Bail("GROQ_API_KEY not set", <<>>)
    /\ UNCHANGED <<output, keySet, fileReadable, netUp, body, audioExists,
                   convExists, inFlight, captured, transcript, stdout,
                   outFile, clipboard, done>>

ReadStart ==
    /\ pc = "read"
    /\ Begin("read")
    /\ pc' = "read_wait"
    /\ UNCHANGED <<output, keySet, fileReadable, netUp, body, audioExists,
                   convExists, captured, transcript, stdout, outFile,
                   clipboard, failure, exitCode, done>>

\* tokio::fs::read(file_path).await.context(..)?
ReadDone ==
    /\ pc = "read_wait"
    /\ inFlight' = inFlight \ {"read"}
    /\ IF convExists /\ fileReadable
       THEN /\ pc' = "send"
            /\ UNCHANGED <<failure, exitCode>>
       ELSE Bail("Failed to read audio file", <<>>)
    /\ UNCHANGED <<output, keySet, fileReadable, netUp, body, audioExists,
                   convExists, calls, captured, transcript, stdout, outFile,
                   clipboard, done>>

SendStart ==
    /\ pc = "send"
    /\ Begin("http")
    /\ pc' = "send_wait"
    /\ UNCHANGED <<output, keySet, fileReadable, netUp, body, audioExists,
                   convExists, captured, transcript, stdout, outFile,
                   clipboard, failure, exitCode, done>>

\* client.post(url)...send().await.context(..)?; the response's status is
\* not looked at.  On success the body is then awaited by response.json().
SendDone ==
    /\ pc = "send_wait"
    /\ IF netUp
       THEN /\ pc' = "json_wait"
            /\ UNCHANGED <<failure, exitCode, inFlight>>
       ELSE /\ Bail("Failed to send request", <<>>)
            /\ inFlight' = inFlight \ {"http"}
    /\ UNCHANGED <<output, keySet, fileReadable, netUp, body, audioExists,
                   convExists, calls, captured, transcript, stdout, outFile,
                   clipboard, done>>

\* response.json().await.context(..)?, then json["text"].as_str()
\* .context(..)?.to_string()
JsonDone ==
    /\ pc = "json_wait"
    /\ inFlight' = inFlight \ {"http"}
    /\ IF body = NotJson
       THEN /\ Bail("Failed to parse JSON response", <<>>)
            /\ UNCHANGED <<transcript, done>>
       ELSE IF AsStr(Index(body, "text")) = None
       THEN /\ Bail("Failed to extract transcript from JSON", <<>>)
            /\ UNCHANGED <<transcript, done>>
       ELSE /\ transcript' = AsStr(Index(body, "text"))
            /\ pc' = "sink"
            /\ done' = Append(done, "transcribe")
            /\ UNCHANGED <<failure, exitCode>>
    /\ UNCHANGED <<output, keySet, fileReadable, netUp, body, audioExists,
                   convExists, calls, captured, stdout, outFile, clipboard>>

----------------------------------------------------------------------------
(* main: the sink *)

CreateStart ==
    /\ pc = "sink"
    /\ output # None
    /\ Begin("create")
    /\ pc' = "create_wait"
    /\ UNCHANGED <<output, keySet, fileReadable, netUp, body, audioExists,
                   convExists, captured, transcript, stdout, outFile,
                   clipboard, failure, exitCode, done>>

CreateDoneCleansUp ==
    /\ pc = "create_wait"
    /\ inFlight' = inFlight \ {"create"}
    /\ \/ /\ outFile' = Some(<<>>)
          /\ pc' = "write"
          /\ UNCHANGED <<failure, exitCode>>
       \/ /\ failure' = Some([how |-> "Err",
                               ctx |-> "Failed to create output file",
                               detail |-> <<>>])
          /\ pc' = "rm_audio"
          /\ UNCHANGED <<outFile, exitCode>>
    /\ UNCHANGED <<output, keySet, fileReadable, netUp, body, audioExists,
                   convExists, calls, captured, transcript, stdout,
                   clipboard, done>>

\* File::create(&output_file).await.context(..)?
CreateDone ==
    /\ pc = "create_wait"
    /\ inFlight' = inFlight \ {"create"}
    /\ \/ /\ outFile' = Some(<<>>)
          /\ pc' = "write"
          /\ UNCHANGED <<failure, exitCode>>
       \/ /\ Bail("Failed to create output file", <<>>)
          /\ UNCHANGED outFile
    /\ UNCHANGED <<output, keySet, fileReadable, netUp, body, audioExists,
                   convExists, calls, captured, transcript, stdout,
                   clipboard, done>>

WriteStart ==
    /\ pc = "write"
    /\ Begin("write")
    /\ pc' = "write_wait"
    /\ UNCHANGED <<output, keySet, fileReadable, netUp, body, audioExists,
                   convExists, captured, transcript, stdout, outFile,
                   clipboard, failure, exitCode, done>>

\* file.write_all(transcript.as_bytes()).await.context(..)?, then the
\* confirmation line.  A failing write_all may have written a proper prefix.
WriteDone ==
    /\ pc = "write_wait"
    /\ inFlight' = inFlight \ {"write"}
    /\ \/ /\ outFile' = transcript
          /\ stdout' = Append(stdout, <<"saved", output[1]>>)
          /\ pc' = "rm_audio"
          /\ done' = Append(done, "sink")
          /\ UNCHANGED <<failure, exitCode>>
       \/ \E n \in 0..Len(transcript[1]) :
            /\ n < Len(transcript[1]) \/ n = 0
            /\ outFile' = Some(SubSeq(transcript[1], 1, n))
            /\ Bail("Failed to write transcript to file", <<>>)
            /\ UNCHANGED <<stdout, done>>
    /\ UNCHANGED <<output, keySet, fileReadable, netUp, body, audioExists,
                   convExists, calls, captured, transcript, clipboard>>

\* println!("Transcription:"); println!("{}", transcript);
Println ==
    /\ pc = "sink"
    /\ output = None
    /\ stdout' = stdout \o << <<"header">>, <<"transcript", transcript[1]>> >>
    /\ pc' = "clip_new"
    /\ UNCHANGED <<output, keySet, fileReadable, netUp, body, audioExists,
                   convExists, inFlight, calls, captured, transcript,
                   outFile, clipboard, failure, exitCode, done>>

\* ClipboardProvider::new().unwrap()
ClipboardNew ==
    /\ pc = "clip_new"
    /\ calls' = [calls EXCEPT !["clip_new"] = @ + 1]
    /\ \/ /\ pc' = "clip_set"
          /\ UNCHANGED <<failure, exitCode>>
       \/ Panic("ClipboardProvider::new")
    /\ UNCHANGED <<output, keySet, fileReadable, netUp, body, audioExists,
                   convExists, inFlight, captured, transcript, stdout,
                   outFile, clipboard, done>>

\* ctx.set_contents(transcript.clone()).unwrap(); println!(..)
ClipboardSet ==
    /\ pc = "clip_set"
    /\ calls' = [calls EXCEPT !["clip_set"] = @ + 1]
    /\ \/ /\ clipboard' = transcript
          /\ stdout' = Append(stdout, <<"copied">>)
          /\ pc' = "rm_audio"
          /\ done' = Append(done, "sink")
          /\ UNCHANGED <<failure, exitCode>>
       \/ /\ Panic("set_contents")
          /\ UNCHANGED <<clipboard, stdout, done>>
    /\ UNCHANGED <<output, keySet, fileReadable, netUp, body, audioExists,
                   convExists, inFlight, captured, transcript, outFile>>

----------------------------------------------------------------------------
(* main: clean up temporary files *)

RemoveAudioStart ==
    /\ pc = "rm_audio"
    /\ Begin("rm_audio")
    /\ pc' = "rm_audio_wait"
    /\ UNCHANGED <<output, keySet, fileReadable, netUp, body, audioExists,
                   convExists, captured, transcript, stdout, outFile,
                   clipboard, failure, exitCode, done>>

RemoveAudioDoneContinues ==
    /\ pc = "rm_audio_wait"
    /\ inFlight' = inFlight \ {"rm_audio"}
    /\ \/ /\ audioExists
          /\ audioExists' = FALSE
          /\ done' = Append(done, "rm_audio")
       \/ UNCHANGED <<audioExists, done>>
    /\ pc' = "rm_converted"
    /\ UNCHANGED <<failure, exitCode>>
    /\ UNCHANGED <<output, keySet, fileReadable, netUp, body, convExists,
                   calls, captured, transcript, stdout, outFile, clipboard>>

\* remove_file(audio_file).await.context(..)?
RemoveAudioDone ==
    /\ pc = "rm_audio_wait"
    /\ inFlight' = inFlight \ {"rm_audio"}
    /\ \/ /\ audioExists
          /\ audioExists' = FALSE
          /\ pc' = "rm_converted"
          /\ done' = Append(done, "rm_audio")
          /\ UNCHANGED <<failure, exitCode>>
       \/ /\ Bail("Failed to remove temporary audio file", <<>>)
          /\ UNCHANGED <<audioExists, done>>
    /\ UNCHANGED <<output, keySet, fileReadable, netUp, body, convExists,
                   calls, captured, transcript, stdout, outFile, clipboard>>

RemoveConvertedStart ==
    /\ pc = "rm_converted"
    /\ Begin("rm_converted")
    /\ pc' = "rm_converted_wait"
    /\ UNCHANGED <<output, keySet, fileReadable, netUp, body, audioExists,
                   convExists, captured, transcript, stdout, outFile,
                   clipboard, failure, exitCode, done>>

RemoveConvertedDoneLenient ==
    /\ pc = "rm_converted_wait"
    /\ inFlight' = inFlight \ {"rm_converted"}
    /\ \/ /\ convExists
          /\ convExists' = FALSE
          /\ done' = Append(done, "rm_converted")
       \/ UNCHANGED <<convExists, done>>
    /\ pc' = "exit"
    /\ exitCode' = Some(0)
    /\ UNCHANGED failure
    /\ UNCHANGED <<output, keySet, fileReadable, netUp, body, audioExists,
                   calls, captured, transcript, stdout, outFile, clipboard>>

\* remove_file(converted_audio).await.context(..)?; Ok(())
RemoveConvertedDone ==
    /\ pc = "rm_converted_wait"
    /\ inFlight' = inFlight \ {"rm_converted"}
    /\ \/ /\ convExists
          /\ convExists' = FALSE
          /\ pc' = "exit"
          /\ exitCode' = Some(0)
          /\ done' = Append(done, "rm_converted")
          /\ UNCHANGED failure
       \/ /\ Bail("Failed to remove converted audio file", <<>>)
          /\ UNCHANGED <<convExists, done>>
    /\ UNCHANGED <<output, keySet, fileReadable, netUp, body, audioExists,
                   calls, captured, transcript, stdout, outFile, clipboard>>

----------------------------------------------------------------------------

Next ==
    \/ DownloadSpawn
    \/ DownloadExit
    \/ ConvertSpawn
    \/ ConvertExit
    \/ EnvVar
    \/ ReadStart
    \/ ReadDone
    \/ SendStart
    \/ SendDone
    \/ JsonDone
    \/ CreateStart
    \/ CreateDone
    \/ WriteStart
    \/ WriteDone
    \/ Println
    \/ ClipboardNew
    \/ ClipboardSet
    \/ RemoveAudioStart
    \/ RemoveAudioDone
    \/ RemoveConvertedStart
    \/ RemoveConvertedDone

Spec == Init /\ [][Next]_vars

TypeOK ==
    /\ inFlight \subseteq Ops
    /\ \A o \in Ops : calls[o] \in 0..1
    /\ exitCode \in {None, Some(0), Some(1), Some(101)}

----------------------------------------------------------------------------
(* Vocabulary of the properties *)

Failed == failure # None

\* The context the failing call was wrapped with.
Ctx == failure[1].ctx

Started(op) == calls[op] > 0

Completed(stage) == \E i \in 1..Len(done) : done[i] = stage

SinkOps == {"create", "write", "clip_new", "clip_set"}

CleanupOps == {"rm_audio", "rm_converted"}

SinkUntouched ==
    /\ \A o \in SinkOps : calls[o] = 0
    /\ stdout = <<>>
    /\ outFile = None
    /\ clipboard = None

NonZeroExit(tool) == captured[tool] # None /\ captured[tool][1].status # 0

\* The spec's DownloadError / ConversionError: the bail! of a non-zero exit.
ToolError(tool) == IF tool = "yt-dlp" THEN "yt-dlp failed" ELSE "ffmpeg failed"

LaterOps(tool) ==
    IF tool = "yt-dlp" THEN Ops \ {"yt-dlp"} ELSE Ops \ {"yt-dlp", "ffmpeg"}

----------------------------------------------------------------------------
\* C1: a non-zero exit of the downloader (of the converter) ends the run
\* with that tool's own error, carrying the captured stderr, and no later
\* operation (converter, transcriber, sink, cleanup) is ever started; each
\* tool is started at most once per run.
C1_NonZeroExitAborts ==
    /\ \A tool \in Tools :
         NonZeroExit(tool) =>
            /\ pc = "exit"
            /\ Failed
            /\ failure[1].how = "Err"
            /\ Ctx = ToolError(tool)
            /\ failure[1].detail = Lossy(captured[tool][1].stderr)
            /\ exitCode = Some(1)
            /\ \A o \in LaterOps(tool) : calls[o] = 0
            /\ SinkUntouched
    /\ \A o \in Ops : calls[o] <= 1

C1_Witness ==
    /\ NonZeroExit("ffmpeg")
    /\ captured["ffmpeg"][1].stderr = <<"BAD">>
    /\ Completed("fetch")
    /\ pc = "exit"

----------------------------------------------------------------------------
\* Some (non-empty) part of the transcript has left the process.
TranscriptOnStdout ==
    \E i \in 1..Len(stdout) :
        stdout[i][1] = "transcript" /\ Len(stdout[i][2]) > 0

TranscriptInFile == outFile # None /\ Len(outFile[1]) > 0

TranscriptOnClipboard == clipboard # None /\ Len(clipboard[1]) > 0

\* C2: in every run that ends with a non-zero exit, no part of the
\* transcript has been written to standard output, to the output file or to
\* the clipboard.
C2_NoTranscriptOnFailure ==
    (exitCode # None /\ exitCode # Some(0)) =>
        /\ ~TranscriptOnStdout
        /\ ~TranscriptInFile
        /\ ~TranscriptOnClipboard

----------------------------------------------------------------------------
\* C3: with the credential variable unset, the transcriber fails with the
\* "GROQ_API_KEY not set" error before any network call: no HTTP request is
\* ever sent, the file is not read, the sink and the cleanup never run.
C3_MissingKeyNoNetwork ==
    ~keySet =>
        /\ calls["http"] = 0
        /\ calls["read"] = 0
        /\ SinkUntouched
        /\ \A o \in CleanupOps : calls[o] = 0
        /\ Started("env_var") =>
              /\ pc = "exit"
              /\ Failed
              /\ failure[1].how = "Err"
              /\ Ctx = "GROQ_API_KEY not set"
              /\ exitCode = Some(1)

C3_Witness ==
    /\ ~keySet
    /\ Started("env_var")
    /\ netUp
    /\ pc = "exit"

----------------------------------------------------------------------------
\* A removal was attempted, has returned, and the file is still there.
RemoveFailed(op) ==
    /\ calls[op] = 1
    /\ op \notin inFlight
    /\ IF op = "rm_audio" THEN audioExists ELSE convExists

RemoveError(op) ==
    IF op = "rm_audio" THEN "Failed to remove temporary audio file"
    ELSE "Failed to remove converted audio file"

\* C4: whenever the process exits with status zero, with or without an
\* output path, both temporary files have been removed and no longer exist;
\* a run in which a removal fails exits non-zero with that removal's I/O
\* error.
C4_SuccessMeansFilesRemoved ==
    /\ exitCode = Some(0) =>
          /\ ~audioExists
          /\ ~convExists
          /\ Completed("rm_audio")
          /\ Completed("rm_converted")
          /\ ~Failed
    /\ \A op \in CleanupOps :
          RemoveFailed(op) =>
             /\ exitCode = Some(1)
             /\ Failed
             /\ failure[1].how = "Err"
             /\ Ctx = RemoveError(op)

C4_Witness ==
    /\ RemoveFailed("rm_converted")
    /\ Completed("rm_audio")
    /\ pc = "exit"

----------------------------------------------------------------------------
PipelineStages == <<"fetch", "convert", "transcribe", "sink">>

\* C5: a removal of a temporary file is attempted only after the fetcher,
\* the transcoder, the transcriber and the sink have all completed with
\* success; a run that fails in one of those stages never attempts a
\* removal, and a removal in flight targets a file that exists.
C5_CleanupOnlyAfterSuccess ==
    /\ \A op \in CleanupOps :
          Started(op) => \A i \in 1..4 : Completed(PipelineStages[i])
    /\ (Failed /\ ~Completed("sink")) => \A op \in CleanupOps : calls[op] = 0
    /\ "rm_audio" \in inFlight => audioExists /\ Completed("fetch")
    /\ "rm_converted" \in inFlight => convExists /\ Completed("convert")

C5_Witness ==
    /\ Failed
    /\ Ctx = "Failed to create output file"
    /\ audioExists
    /\ convExists
    /\ \A op \in CleanupOps : calls[op] = 0

----------------------------------------------------------------------------
StageOrder ==
    <<"fetch", "convert", "transcribe", "sink", "rm_audio", "rm_converted">>

SinkStarted ==
    \/ \E o \in SinkOps : Started(o)
    \/ stdout # <<>>

C7_Order ==
    /\ Len(done) <= Len(StageOrder)
    /\ \A i \in 1..Len(done) : done[i] = StageOrder[i]
    /\ Started("ffmpeg") => Completed("fetch")
    /\ Started("env_var") => Completed("convert")
    /\ SinkStarted => Completed("transcribe")
    /\ Started("rm_audio") => Completed("sink")
    /\ Started("rm_converted") => Completed("rm_audio")
    /\ Cardinality(inFlight) <= 1
    /\ \A op \in CleanupOps : calls[op] <= 1
    /\ Started("rm_audio") => Completed("convert") /\ "ffmpeg" \notin inFlight
    /\ Started("rm_converted") =>
          /\ Completed("transcribe")
          /\ "read" \notin inFlight
          /\ "http" \notin inFlight
    /\ Failed => pc = "exit" /\ inFlight = {}

\* C7: the stages run strictly in the order fetcher, transcoder,
\* transcriber, sink, cleanup, each beginning only after the previous one
\* completed with success; at most one external operation is in flight; each
\* temporary file is removed at most once and only after its last reader
\* finished; after a failure no step is taken.
C7_StrictSequence == []C7_Order /\ [][~Failed]_vars

C7_Witness ==
    /\ pc = "exit"
    /\ done = StageOrder
    /\ exitCode = Some(0)

----------------------------------------------------------------------------
\* The response is a JSON object whose "text" field is a string.
HasTextString(b) ==
    /\ b[1] = "obj"
    /\ \E i \in 1..Len(b[2]) : b[2][i][1] = "text" /\ b[2][i][2][1] = "str"

TextOf(b) ==
    LET i == CHOOSE j \in 1..Len(b[2]) : b[2][j][1] = "text" IN b[2][i][2][2]

\* transcribe_audio has been entered and has returned.
TranscriberReturned ==
    /\ Started("env_var")
    /\ pc \notin {"read", "read_wait", "send", "send_wait", "json_wait"}

TranscriberFailedWith(ctx) ==
    /\ pc = "exit"
    /\ Failed
    /\ failure[1].how = "Err"
    /\ Ctx = ctx
    /\ transcript = None
    /\ ~Completed("transcribe")

\* C8: the transcriber checks, in this order, the credential, the file
\* read, the transport, the JSON decoding and the schema, and reports the
\* first that fails with its own error; otherwise the transcript is exactly
\* the string of the response's text field.  A read failure sends no
\* request; a run that reaches the network sends exactly one.
C8_TranscriberOutcomes ==
    /\ calls["http"] <= 1
    /\ pc \in {"send_wait", "json_wait"} => calls["http"] = 1
    /\ TranscriberReturned =>
         IF ~keySet
         THEN TranscriberFailedWith("GROQ_API_KEY not set")
              /\ calls["read"] = 0 /\ calls["http"] = 0
         ELSE IF ~fileReadable
         THEN TranscriberFailedWith("Failed to read audio file")
              /\ calls["http"] = 0
         ELSE IF ~netUp
         THEN TranscriberFailedWith("Failed to send request")
              /\ calls["http"] = 1
         ELSE IF body = NotJson
         THEN TranscriberFailedWith("Failed to parse JSON response")
              /\ calls["http"] = 1
         ELSE IF ~HasTextString(body)
         THEN TranscriberFailedWith("Failed to extract transcript from JSON")
              /\ calls["http"] = 1
         ELSE /\ transcript = Some(TextOf(body))
              /\ Completed("transcribe")
              /\ calls["http"] = 1

C8_Witness ==
    /\ TranscriberReturned
    /\ keySet /\ fileReadable /\ netUp
    /\ HasTextString(body)
    /\ transcript = Some(<<" ", "a">>)

----------------------------------------------------------------------------
\* The sink has handed over the whole transcript.
Delivered ==
    /\ Completed("sink")
    /\ IF output # None
       THEN outFile = transcript
       ELSE /\ clipboard = transcript
            /\ \E i \in 1..Len(stdout) :
                  stdout[i] = <<"transcript", transcript[1]>>

\* C9: cleanup removes the intermediate file first and the transcoded file
\* second and stops at the first failure: if removing the intermediate file
\* fails, removing the transcoded file is never attempted and that file
\* still exists at exit; after either removal failure the process exits
\* with failure although the sink has delivered the complete transcript.
C9_CleanupStopsAtFirstFailure ==
    /\ Started("rm_converted") => Completed("rm_audio") /\ ~audioExists
    /\ RemoveFailed("rm_audio") =>
          /\ pc = "exit"
          /\ calls["rm_converted"] = 0
          /\ convExists
    /\ \A op \in CleanupOps :
          RemoveFailed(op) =>
             /\ pc = "exit"
             /\ exitCode = Some(1)
             /\ Failed
             /\ Delivered

C9_Witness ==
    /\ RemoveFailed("rm_audio")
    /\ pc = "exit"
    /\ convExists
    /\ Delivered
    /\ Len(transcript[1]) > 0

----------------------------------------------------------------------------
----------------------------------------------------------------------------
\* A clipboard call was made and the sink did not complete.
ClipboardFailed ==
    /\ pc = "exit"
    /\ Started("clip_new")
    /\ ~Completed("sink")

\* C6: without an output path, a clipboard failure (acquiring the clipboard
\* or setting its contents) is reported as an error that propagates to the
\* top level like every other stage error (returned from main), and the
\* process ends with a non-zero status, never zero.
C6_ClipboardErrorPropagates ==
    ClipboardFailed =>
        /\ Failed
        /\ failure[1].how = "Err"
        /\ exitCode # None
        /\ exitCode # Some(0)

====
